---- MODULE Spec2Model ----
(***************************************************************************)
(* A model of the droid-provider credential core:                          *)
(*   src-tauri/src/provider.rs       the credential store and its handlers *)
(*   src-tauri/src/token_refresh.rs  the OAuth refresh workflow            *)
(*   src-tauri/src/auth/workos.rs    the token exchange                    *)
(*   src-tauri/src/auth/encryption.rs the crypto unit                      *)
(*   src-tauri/src/credentials.rs    the data structures                   *)
(*                                                                         *)
(* Strings of the program are TLA+ strings where only their identity is    *)
(* read, and sequences of characters or bytes where the code looks inside  *)
(* them (model names, plaintext keys, ciphertext tokens).                  *)
(***************************************************************************)
EXTENDS Integers, Sequences, FiniteSets, TLC

\* ------------------------------------------------------------------ bounds

\* Number of concurrent tasks calling the store's handlers.
NumTasks == 2
\* Cap on usage_count (a u64 the model cannot run to its end).
MaxCount == 2

\* ------------------------------------------------------------- basic values

\* Option::None, and a JSON field that is not present.
None == "None"
Absent == "absent"

Tasks == 1..NumTasks

\* The ids uuid::Uuid::new_v4() hands out, in the order it hands them out:
\* opaque strings, each returned once.
IdPool == <<"id-a", "id-b">>
CredIds == {IdPool[i] : i \in 1..Len(IdPool)}

RECURSIVE SumSeq(_)
SumSeq(s) == IF s = <<>> THEN 0 ELSE Head(s) + SumSeq(Tail(s))

\* -------------------------------------------------------------- crypto unit
\* Bytes are 0..255. Text the code encrypts or hashes is a sequence of bytes.

\* AES block and IV length in bytes (iv: [u8; 16]).
BlockLen == 16
\* Length of the derived key and of a SHA-256 digest in bytes ([u8; 32]).
KeyLen == 32
ByteMod == 256

\* ENCRYPTION_SALT = "droid-account-salt", shortened to its initials.
ENCRYPTION_SALT == <<100, 97, 115>>
\* ENCRYPTION_KEY: the secret of the process ("default-droid-encryption-key"
\* unless the environment sets another), shortened.
ENCRYPTION_KEY == <<100, 100, 101, 107>>

RECURSIVE Xor(_, _)
Xor(a, b) ==
  IF a = 0 THEN b
  ELSE IF b = 0 THEN a
  ELSE (((a % 2) + (b % 2)) % 2) + 2 * Xor(a \div 2, b \div 2)

\* Stand-in for SHA-256: a deterministic digest of KeyLen bytes.
Sha256(bytes) ==
  [i \in 1..KeyLen |-> ((SumSeq(bytes) * (2 * i + 1)) + (7 * Len(bytes)) + i) % ByteMod]

derive_key(password) == Sha256(password \o ENCRYPTION_SALT)

\* Stand-in for the AES-256 block permutation: a keyed bijection on blocks.
BlockEncrypt(key, block) ==
  [i \in 1..BlockLen |->
     (Xor(block[(i % BlockLen) + 1], key[i]) + key[BlockLen + i]) % ByteMod]

BlockDecrypt(key, block) ==
  [i \in 1..BlockLen |->
     LET j == IF i = 1 THEN BlockLen ELSE i - 1
     IN Xor((block[j] - key[BlockLen + j] + ByteMod) % ByteMod, key[j])]

XorBlock(a, b) == [i \in 1..BlockLen |-> Xor(a[i], b[i])]

\* Mutant: no padding block when the text fills its last block.
Pkcs7PadToBoundary(bytes) ==
  LET n == (BlockLen - (Len(bytes) % BlockLen)) % BlockLen
  IN bytes \o [i \in 1..n |-> n]

\* PKCS#7: 1..BlockLen bytes of padding, each holding the padding length.
Pkcs7Pad(bytes) ==
  LET n == BlockLen - (Len(bytes) % BlockLen)
  IN bytes \o [i \in 1..n |-> n]

Pkcs7Ok(bytes) ==
  /\ Len(bytes) > 0
  /\ LET n == bytes[Len(bytes)]
     IN /\ n \in 1..BlockLen
        /\ n <= Len(bytes)
        /\ \A i \in (Len(bytes) - n + 1)..Len(bytes) : bytes[i] = n

Pkcs7Unpad(bytes) == SubSeq(bytes, 1, Len(bytes) - bytes[Len(bytes)])

RECURSIVE CbcEncrypt(_, _, _)
CbcEncrypt(key, prev, padded) ==
  IF padded = <<>> THEN <<>>
  ELSE LET c == BlockEncrypt(key, XorBlock(SubSeq(padded, 1, BlockLen), prev))
       IN c \o CbcEncrypt(key, c, SubSeq(padded, BlockLen + 1, Len(padded)))

RECURSIVE CbcDecrypt(_, _, _)
CbcDecrypt(key, prev, ct) ==
  IF ct = <<>> THEN <<>>
  ELSE LET c == SubSeq(ct, 1, BlockLen)
       IN XorBlock(BlockDecrypt(key, c), prev)
            \o CbcDecrypt(key, c, SubSeq(ct, BlockLen + 1, Len(ct)))

HexDigits ==
  <<"0", "1", "2", "3", "4", "5", "6", "7", "8", "9", "a", "b", "c", "d", "e", "f">>

RECURSIVE HexEncode(_)
HexEncode(bytes) ==
  IF bytes = <<>> THEN <<>>
  ELSE <<HexDigits[(Head(bytes) \div 16) + 1], HexDigits[(Head(bytes) % 16) + 1]>>
         \o HexEncode(Tail(bytes))

IsHexDigit(c) == \E i \in 1..16 : HexDigits[i] = c
HexValue(c) == (CHOOSE i \in 1..16 : HexDigits[i] = c) - 1

\* hex::decode fails on an odd length and on a character that is no hex digit.
HexOk(chars) ==
  /\ Len(chars) % 2 = 0
  /\ \A i \in 1..Len(chars) : IsHexDigit(chars[i])

HexDecode(chars) ==
  [i \in 1..(Len(chars) \div 2) |->
     (16 * HexValue(chars[(2 * i) - 1])) + HexValue(chars[2 * i])]

\* str::split(':'): the pieces between the colons, in order. The k-th piece
\* runs from just after the (k-1)-th colon to just before the k-th one.
SplitColon(chars) ==
  LET colons == {i \in 1..Len(chars) : chars[i] = ":"}
      n == Cardinality(colons)
      cut(k) == IF k = 0 THEN 0
                ELSE IF k = n + 1 THEN Len(chars) + 1
                ELSE CHOOSE i \in colons :
                       Cardinality({j \in colons : j < i}) = k - 1
  IN [k \in 1..(n + 1) |-> SubSeq(chars, cut(k - 1) + 1, cut(k) - 1)]

\* String::from_utf8 on the alphabet of the model: ASCII bytes.
Utf8Ok(bytes) == \A i \in 1..Len(bytes) : bytes[i] < 128

\* encrypt_sensitive_data with the IV the random generator drew.
encrypt_sensitive_data(plaintext, encryption_key, iv) ==
  IF plaintext = <<>> THEN <<>>
  ELSE LET key == derive_key(encryption_key)
           ciphertext == CbcEncrypt(key, iv, Pkcs7Pad(plaintext))
       IN HexEncode(iv) \o <<":">> \o HexEncode(ciphertext)

\* decrypt_sensitive_data: [ok |-> TRUE, val |-> plaintext] or an error.
decrypt_sensitive_data(encrypted_text, encryption_key) ==
  IF encrypted_text = <<>> THEN [ok |-> TRUE, val |-> <<>>, err |-> None]
  ELSE LET parts == SplitColon(encrypted_text)
       IN IF Len(parts) # 2
            THEN [ok |-> FALSE, val |-> <<>>, err |-> "invalid format"]
          ELSE IF ~HexOk(parts[1])
            THEN [ok |-> FALSE, val |-> <<>>, err |-> "iv decode"]
          ELSE IF ~HexOk(parts[2])
            THEN [ok |-> FALSE, val |-> <<>>, err |-> "ciphertext decode"]
          ELSE IF Len(HexDecode(parts[1])) # BlockLen
            THEN [ok |-> FALSE, val |-> <<>>, err |-> "iv length"]
          ELSE LET key == derive_key(encryption_key)
                   ct == HexDecode(parts[2])
                   buffer == IF Len(ct) % BlockLen = 0
                               THEN CbcDecrypt(key, HexDecode(parts[1]), ct)
                               ELSE <<>>
               IN IF ~Pkcs7Ok(buffer)
                    THEN [ok |-> FALSE, val |-> <<>>, err |-> "decrypt"]
                  ELSE IF ~Utf8Ok(Pkcs7Unpad(buffer))
                    THEN [ok |-> FALSE, val |-> <<>>, err |-> "utf8"]
                  ELSE [ok |-> TRUE, val |-> Pkcs7Unpad(buffer), err |-> None]

\* hash_api_key: the hex digest of the key.
hash_api_key(api_key) == HexEncode(Sha256(api_key))

\* --------------------------------------------------------------- data model

\* DroidCredentials::default(): the value of every field a config leaves out.
\* name, endpoint_type, owner_name and token_type are left out of the model:
\* no handler reads them to decide anything or writes them after creation.
DefaultCredentials ==
  [auth_type |-> "oauth", access_token |-> None, refresh_token |-> None,
   expires_at |-> None, organization_id |-> None, user_id |-> None,
   owner_email |-> None, api_keys |-> <<>>, last_refresh |-> None,
   is_healthy |-> TRUE, usage_count |-> 0, error_count |-> 0,
   last_error |-> None]

\* A fresh ApiKeyEntry as create_credential builds it (id and created_at are
\* fresh values nothing reads).
NewApiKeyEntry(key_str, iv) ==
  [hash |-> hash_api_key(key_str),
   encrypted_key |-> encrypt_sensitive_data(key_str, ENCRYPTION_KEY, iv),
   last_used_at |-> None, usage_count |-> 0, status |-> "active",
   error_message |-> None]

\* Plaintext API keys ("k1", "k2") as bytes, and the IVs the generator draws.
Key1 == <<107, 49>>
Key2 == <<107, 50>>
IV1 == [i \in 1..BlockLen |-> i]
IV2 == [i \in 1..BlockLen |-> (17 * i) % ByteMod]
IVs == {IV1, IV2}

\* JSON values a config holds under "api_keys": strings and objects.
NoEntry ==
  [hash |-> <<>>, encrypted_key |-> <<>>, last_used_at |-> None,
   usage_count |-> 0, status |-> None, error_message |-> None]
JStr(v) == [kind |-> "string", str |-> v, obj |-> NoEntry]
JEntry(e) == [kind |-> "object", str |-> <<>>, obj |-> e]
\* The "api_keys" field of a config: not present, or a JSON array.
NoArray == [present |-> FALSE, items |-> <<>>]
JArray(items) == [present |-> TRUE, items |-> items]

\* The JSON configs the callers pass to create_credential. A field is Absent
\* or holds a JSON value; is_healthy holds "true" or "false".
NoFields ==
  [auth_type |-> Absent, access_token |-> Absent, refresh_token |-> Absent,
   is_healthy |-> Absent, api_keys |-> NoArray]

Configs ==
  { NoFields,
    [NoFields EXCEPT !.access_token = "at0"],
    [NoFields EXCEPT !.refresh_token = "rt0"],
    [NoFields EXCEPT !.access_token = "at0", !.refresh_token = "rt0"],
    [NoFields EXCEPT !.access_token = "at0", !.refresh_token = "rt0",
                     !.is_healthy = "false"],
    [NoFields EXCEPT !.access_token = "at0", !.auth_type = "oauth"],
    [NoFields EXCEPT !.api_keys = JArray(<<>>)],
    [NoFields EXCEPT !.api_keys = JArray(<<JStr(Key1)>>)],
    [NoFields EXCEPT !.api_keys = JArray(<<JStr(Key1), JStr(Key2)>>)],
    [NoFields EXCEPT !.api_keys = JArray(<<JEntry(NewApiKeyEntry(Key1, IV1))>>)] }

HasKeys(config) == config.api_keys.present
HasTokens(config) ==
  config.access_token # Absent \/ config.refresh_token # Absent

\* The calls of create_credential: every config with the auth type it is
\* written for, the configs without keys as "api_key" too, and an auth type
\* the handler does not know.
CreateCalls ==
  {<<"oauth", c>> : c \in {c \in Configs : ~HasKeys(c)}}
    \cup {<<"api_key", c>> : c \in {c \in Configs : HasKeys(c) \/ ~HasTokens(c)}}
    \cup {<<"api_key", [NoFields EXCEPT !.access_token = "at0"]>>,
          <<"oauth", [NoFields EXCEPT !.api_keys = JArray(<<JStr(Key1)>>)]>>,
          <<"bearer", [NoFields EXCEPT !.access_token = "at0"]>>,
          <<"bearer", [NoFields EXCEPT !.api_keys = JArray(<<JStr(Key1)>>)]>>}

\* serde names of AuthType under rename_all = "snake_case".
AuthTypeSerdeNames == {"o_auth", "api_key"}

\* Whether serde_json::from_value::<DroidCredentials>(config) succeeds: the
\* auth_type, when present, names a variant, and every element of api_keys,
\* when present, is an object (a JSON string is no ApiKeyEntry).
from_value_ok(config) ==
  /\ config.auth_type # Absent => config.auth_type \in AuthTypeSerdeNames
  /\ \A i \in 1..Len(config.api_keys.items) :
       config.api_keys.items[i].kind = "object"

OptField(v) == IF v = Absent THEN None ELSE v

\* serde_json::from_value::<DroidCredentials>(config) when it succeeds.
from_value(config) ==
  [DefaultCredentials EXCEPT
     !.auth_type = IF config.auth_type = "api_key" THEN "api_key" ELSE "oauth",
     !.access_token = OptField(config.access_token),
     !.refresh_token = OptField(config.refresh_token),
     !.is_healthy = (config.is_healthy # "false"),
     !.api_keys = [i \in 1..Len(config.api_keys.items) |->
                     config.api_keys.items[i].obj]]

\* The entries create_credential builds from the JSON array: one per element
\* that is a string, in order, with the IVs drawn for them.
RECURSIVE EntriesOf(_, _)
EntriesOf(api_keys, ivs) ==
  IF api_keys = <<>> THEN <<>>
  ELSE IF Head(api_keys).kind = "string"
    THEN <<NewApiKeyEntry(Head(api_keys).str, Head(ivs))>>
           \o EntriesOf(Tail(api_keys), Tail(ivs))
  ELSE EntriesOf(Tail(api_keys), Tail(ivs))

Ok(v) == [ok |-> TRUE, val |-> v, err |-> None]
Err(e) == [ok |-> FALSE, val |-> None, err |-> e]

\* Mutant: the required fields of the auth type are not checked.
BuildCredentialUnchecked(auth_type, config, ivs) ==
  IF auth_type \notin {"oauth", "api_key"} THEN Err("unsupported auth type")
  ELSE IF ~from_value_ok(config) THEN Err("deserialize")
  ELSE LET droid_config == [from_value(config) EXCEPT !.auth_type = auth_type]
       IN Ok(IF auth_type = "api_key" /\ config.api_keys.present
               THEN [droid_config EXCEPT
                       !.api_keys = EntriesOf(config.api_keys.items, ivs)]
               ELSE droid_config)

\* create_credential up to the id generation: the record to insert, or the
\* error the handler returns.
BuildCredential(auth_type, config, ivs) ==
  IF auth_type \notin {"oauth", "api_key"} THEN Err("unsupported auth type")
  ELSE IF ~from_value_ok(config) THEN Err("deserialize")
  ELSE LET droid_config == [from_value(config) EXCEPT !.auth_type = auth_type]
           with_keys ==
             IF auth_type = "api_key" /\ config.api_keys.present
               THEN [droid_config EXCEPT
                       !.api_keys = EntriesOf(config.api_keys.items, ivs)]
               ELSE droid_config
       IN IF /\ auth_type = "oauth"
             /\ with_keys.refresh_token = None
             /\ with_keys.access_token = None
            THEN Err("oauth needs a token")
          ELSE IF auth_type = "api_key" /\ with_keys.api_keys = <<>>
            THEN Err("api key needs a key")
          ELSE Ok(with_keys)

\* ------------------------------------------------------ release and validate

\* The JSON outcomes the callers pass to release_credential. has_error: the
\* value has an "error" key; message and mark_unhealthy are the fields of
\* that error value, Absent when it has none (or is no object).
NonString == "<non-string>"
NonBool == "<non-bool>"

Outcome(has_error, message, mark_unhealthy) ==
  [has_error |-> has_error, message |-> message, mark_unhealthy |-> mark_unhealthy]

Success == Outcome(FALSE, Absent, Absent)

Outcomes ==
  { Success,
    Outcome(TRUE, "x", "true"),
    Outcome(TRUE, "x", "false"),
    Outcome(TRUE, "x", Absent),
    Outcome(TRUE, Absent, "true"),
    Outcome(TRUE, Absent, Absent),
    Outcome(TRUE, NonString, NonBool) }

\* error.get("message").and_then(|m| m.as_str()).map(String::from)
MessageOf(result) ==
  IF result.message \in {Absent, NonString} THEN None ELSE result.message

\* Mutant: unwrap_or(true), so an error marks unless it says false.
MarkUnhealthyByDefault(result) == result.mark_unhealthy # "false"

\* error.get("mark_unhealthy").and_then(|v| v.as_bool()).unwrap_or(false)
MarkUnhealthy(result) == result.mark_unhealthy = "true"

\* Mutant: a successful release does not heal the record.
ReleaseRecordNoHeal(credential, result) ==
  LET used == [credential EXCEPT !.usage_count = @ + 1]
  IN IF result.has_error
       THEN [used EXCEPT
               !.error_count = @ + 1,
               !.last_error = MessageOf(result),
               !.is_healthy = IF MarkUnhealthy(result) THEN FALSE ELSE @]
       ELSE [used EXCEPT !.last_error = None]

\* Mutant: every error marks the record unhealthy.
ReleaseRecordAnyErrorMarks(credential, result) ==
  LET used == [credential EXCEPT !.usage_count = @ + 1]
  IN IF result.has_error
       THEN [used EXCEPT
               !.error_count = @ + 1,
               !.last_error = MessageOf(result),
               !.is_healthy = FALSE]
       ELSE [used EXCEPT !.is_healthy = TRUE, !.last_error = None]

\* The body of release_credential on the record it found.
ReleaseRecord(credential, result) ==
  LET used == [credential EXCEPT !.usage_count = @ + 1]
  IN IF result.has_error
       THEN [used EXCEPT
               !.error_count = @ + 1,
               !.last_error = MessageOf(result),
               !.is_healthy = IF MarkUnhealthy(result) THEN FALSE ELSE @]
       ELSE [used EXCEPT !.is_healthy = TRUE, !.last_error = None]

HasActiveKey(credential) ==
  \E i \in 1..Len(credential.api_keys) : credential.api_keys[i].status = "active"

\* Mutant: the health flag is not looked at.
ValidateRecordIgnoreHealth(credential) ==
  LET is_valid ==
        IF credential.auth_type = "oauth"
          THEN credential.access_token # None \/ credential.refresh_token # None
          ELSE HasActiveKey(credential)
  IN [valid |-> is_valid,
      message |-> IF is_valid THEN "valid" ELSE "incomplete"]

\* The ValidationResult of validate_credential on the record it found.
ValidateRecord(credential) ==
  LET is_valid ==
        IF credential.auth_type = "oauth"
          THEN credential.access_token # None \/ credential.refresh_token # None
          ELSE HasActiveKey(credential)
  IN [valid |-> is_valid /\ credential.is_healthy,
      message |-> IF is_valid THEN "valid" ELSE "incomplete"]

\* ------------------------------------------------------------------ acquire

\* Model names, as characters.
ModelClaude == <<"c", "l", "a", "u", "d", "e", "-", "4">>
ModelGpt == <<"g", "p", "t", "-", "5">>
ModelGemini == <<"g", "e", "m", "i", "n", "i">>
Models == {ModelClaude, ModelGpt, ModelGemini, <<"g", "p", "t">>}

StartsWith(str, prefix) ==
  Len(prefix) <= Len(str) /\ SubSeq(str, 1, Len(prefix)) = prefix

supports_model(model) ==
  \/ StartsWith(model, <<"c", "l", "a", "u", "d", "e", "-">>)
  \/ StartsWith(model, <<"g", "p", "t", "-">>)

\* Mutant: the filter keeps every record.
HealthyIdsNoFilter(creds) == DOMAIN creds

\* The ids acquire_credential's filter keeps.
HealthyIds(creds) == {id \in DOMAIN creds : creds[id].is_healthy}

\* Mutant: the entries are not filtered by status.
ActiveKeysAnyStatus(credential) == 1..Len(credential.api_keys)

\* The indices of the entries the ApiKey branch keeps.
ActiveKeys(credential) ==
  {i \in 1..Len(credential.api_keys) : credential.api_keys[i].status = "active"}

\* acquire_credential once the record is selected: the bearer token of the
\* Authorization header, or the error. pick is the index the random draw
\* selects among the active entries.
BearerOf(credential, pick) ==
  IF credential.auth_type = "oauth"
    THEN IF credential.access_token = None
           THEN Err("no access_token")
           ELSE Ok(credential.access_token)
  ELSE IF ActiveKeys(credential) = {}
    THEN Err("no api key")
  ELSE LET api_key ==
             decrypt_sensitive_data(credential.api_keys[pick].encrypted_key,
                                    ENCRYPTION_KEY)
       IN IF api_key.ok THEN Ok(api_key.val) ELSE Err(api_key.err)

\* ------------------------------------------------------------ token refresh

\* Bodies of successful replies of the token endpoint (WorkOSTokenResponse;
\* user_id and email are user.id and user.email).
TokenResponse(at, rt, exp_at, exp_in, org, uid, email) ==
  [access_token |-> at, refresh_token |-> rt, expires_at |-> exp_at,
   expires_in |-> exp_in, organization_id |-> org, user_id |-> uid,
   email |-> email]

NoBody == TokenResponse(None, None, None, None, None, None, None)

\* What the token exchange can come back with: a transport failure, a
\* non-success status, a body that is no WorkOSTokenResponse, or a response.
ReplyFail(kind) == [kind |-> kind, body |-> NoBody]
ReplyOk(body) == [kind |-> "ok", body |-> body]

\* DateTime::parse_from_rfc3339(s).ok(): the timestamps of the model are
\* "t:..." strings; anything else does not parse.
ParseRfc3339(s) == IF s \in {"t:2030"} THEN s ELSE None

\* The expiry refresh_workos_token computes.
ExpiryOf(body) ==
  IF body.expires_at # None THEN ParseRfc3339(body.expires_at)
  ELSE IF body.expires_in # None THEN "t:now+expires_in"
  ELSE "t:now+8h"

\* refresh_workos_token: the TokenRefreshResult of auth/workos.rs, or the error.
refresh_workos_token(reply) ==
  IF reply.kind # "ok" THEN Err(reply.kind)
  ELSE Ok([access_token |-> reply.body.access_token,
           refresh_token |-> reply.body.refresh_token,
           expires_at |-> ExpiryOf(reply.body),
           organization_id |-> reply.body.organization_id,
           user_id |-> reply.body.user_id,
           owner_email |-> reply.body.email])

\* Mutant: the auth type is not looked at.
RefreshPrecheckAnyType(credential) ==
  IF credential.refresh_token = None THEN Err("missing refresh_token")
  ELSE Ok(credential.refresh_token)

\* token_refresh::refresh_token and refresh_oauth_token up to the exchange:
\* the error returned before any request is built, or Ok.
RefreshPrecheck(credential) ==
  IF credential.auth_type # "oauth" THEN Err("api key needs no refresh")
  ELSE IF credential.refresh_token = None THEN Err("missing refresh_token")
  ELSE Ok(credential.refresh_token)

\* Mutant: the refresh token is overwritten with whatever the response holds.
ApplyRefreshOverwriteToken(credential, result) ==
  [credential EXCEPT
     !.access_token = result.access_token,
     !.refresh_token = result.refresh_token,
     !.expires_at = result.expires_at,
     !.last_refresh = "t:now",
     !.is_healthy = TRUE,
     !.last_error = None,
     !.organization_id = IF result.organization_id # None
                           THEN result.organization_id ELSE @,
     !.user_id = IF result.user_id # None THEN result.user_id ELSE @,
     !.owner_email = IF result.owner_email # None
                       THEN result.owner_email ELSE @]

\* Mutant: the health flag and the last error are left as they were.
ApplyRefreshNoHeal(credential, result) ==
  [credential EXCEPT
     !.access_token = result.access_token,
     !.refresh_token = IF result.refresh_token # None
                         THEN result.refresh_token ELSE @,
     !.expires_at = result.expires_at,
     !.last_refresh = "t:now",
     !.organization_id = IF result.organization_id # None
                           THEN result.organization_id ELSE @,
     !.user_id = IF result.user_id # None THEN result.user_id ELSE @,
     !.owner_email = IF result.owner_email # None
                       THEN result.owner_email ELSE @]

\* Mutant: the record is rebuilt from the tokens, and its counters are lost.
ApplyRefreshResetsCounters(credential, result) ==
  [credential EXCEPT
     !.access_token = result.access_token,
     !.refresh_token = IF result.refresh_token # None
                         THEN result.refresh_token ELSE @,
     !.expires_at = result.expires_at,
     !.last_refresh = "t:now",
     !.is_healthy = TRUE,
     !.last_error = None,
     !.usage_count = 0,
     !.error_count = 0,
     !.organization_id = IF result.organization_id # None
                           THEN result.organization_id ELSE @,
     !.user_id = IF result.user_id # None THEN result.user_id ELSE @,
     !.owner_email = IF result.owner_email # None
                       THEN result.owner_email ELSE @]

\* refresh_oauth_token after a successful exchange: the updated record.
ApplyRefresh(credential, result) ==
  [credential EXCEPT
     !.access_token = result.access_token,
     !.refresh_token = IF result.refresh_token # None
                         THEN result.refresh_token ELSE @,
     !.expires_at = result.expires_at,
     !.last_refresh = "t:now",
     !.is_healthy = TRUE,
     !.last_error = None,
     !.organization_id = IF result.organization_id # None
                           THEN result.organization_id ELSE @,
     !.user_id = IF result.user_id # None THEN result.user_id ELSE @,
     !.owner_email = IF result.owner_email # None
                       THEN result.owner_email ELSE @]

\* The replies the token endpoint gives to the store's refreshes.
StoreReplies ==
  { ReplyFail("transport"), ReplyFail("status"), ReplyFail("json"),
    ReplyOk(TokenResponse("at1", None, None, None, None, None, None)) }

\* -------------------------------------------------------------- the store

VARIABLES
  creds,     \* CREDENTIALS: credential id -> DroidCredentials
  lock,      \* the task holding the RwLock's write guard, 0 when none does
  inflight,  \* per task: the id whose token exchange it awaits, or None
  last,      \* the handler call that has just returned, with its result
  credential, \* a DroidCredentials a caller of token_refresh owns
  wpc,       \* where that caller is inside token_refresh
  max_retries, \* refresh_token_with_retry: its argument
  attempt,   \* refresh_token_with_retry: the loop variable
  last_error, \* refresh_token_with_retry: the local of that name
  slept,     \* the delays in ms of the sleeps of the call, in order
  tried,     \* the results of the attempts of the call, in order
  input      \* the arguments a caller of a pure function passes

vars == <<creds, lock, inflight, last, credential, wpc,
          max_retries, attempt, last_error, slept, tried, input>>
storeVars == <<creds, lock, inflight>>
recordVars == <<credential, wpc>>
retryVars == <<max_retries, attempt, last_error, slept, tried>>

\* No pure function is being called.
NoInput == [fn |-> "none"]

\* An id no create has returned, and the ids callers pass to the handlers.
UnknownId == "id-none"
CallIds == CredIds \cup {UnknownId}

NoCall == [op |-> "none"]

Init ==
  /\ creds = << >>
  /\ lock = 0
  /\ inflight = [t \in Tasks |-> None]
  /\ last = NoCall
  /\ credential = DefaultCredentials
  /\ wpc = "idle"
  /\ max_retries = 0
  /\ attempt = 0
  /\ last_error = None
  /\ slept = <<>>
  /\ tried = <<>>
  /\ input = NoInput

\* A task can start a handler when it is not inside one. The tasks run the
\* same code, so the least idle task stands for whichever task calls.
Idle(t) ==
  /\ last = NoCall
  /\ inflight[t] = None
  /\ \A u \in Tasks : u < t => inflight[u] # None

\* uuid::Uuid::new_v4(): an id no record has.
HasFreshId == Cardinality(DOMAIN creds) < Len(IdPool)
FreshId == IdPool[Cardinality(DOMAIN creds) + 1]

\* create_credential. The write lock is taken only to insert.
CreateCredential(t, auth_type, config) ==
  /\ Idle(t)
  /\ \E ivs \in [1..Len(config.api_keys.items) -> IVs] :
       LET built == BuildCredential(auth_type, config, ivs)
       IN IF built.ok
            THEN /\ lock = 0
                 /\ HasFreshId
                 /\ creds' = [id \in DOMAIN creds \cup {FreshId} |->
                                IF id = FreshId THEN built.val ELSE creds[id]]
                 /\ last' = [op |-> "create", auth_type |-> auth_type,
                             config |-> config, ok |-> TRUE, err |-> None,
                             id |-> FreshId, pre |-> creds]
            ELSE /\ creds' = creds
                 /\ last' = [op |-> "create", auth_type |-> auth_type,
                             config |-> config, ok |-> FALSE, err |-> built.err,
                             id |-> UnknownId, pre |-> creds]
  /\ UNCHANGED <<lock, inflight, credential, wpc, retryVars, input>>

\* Mutant: acquire counts the use on the record it selects.
AcquireCredentialCountsUsage(t, model) ==
  /\ Idle(t)
  /\ lock = 0
  /\ supports_model(model)
  /\ \E id \in HealthyIds(creds) :
       /\ creds[id].usage_count < MaxCount
       /\ creds' = [creds EXCEPT ![id].usage_count = @ + 1]
       /\ last' = [op |-> "acquire", model |-> model, ok |-> FALSE,
                   err |-> "no access_token", id |-> UnknownId,
                   bearer |-> None, pre |-> creds]
  /\ UNCHANGED <<lock, inflight, credential, wpc, retryVars, input>>

\* acquire_credential. The record is the first healthy one in the HashMap's
\* iteration order, which is any of them; the key is a random active one.
AcquireCredential(t, model) ==
  /\ Idle(t)
  /\ IF ~supports_model(model)
       THEN last' = [op |-> "acquire", model |-> model, ok |-> FALSE,
                     err |-> "unsupported model", id |-> UnknownId,
                     bearer |-> None, pre |-> creds]
     ELSE /\ lock = 0
          /\ IF HealthyIds(creds) = {}
               THEN last' = [op |-> "acquire", model |-> model, ok |-> FALSE,
                             err |-> "no healthy credential", id |-> UnknownId,
                             bearer |-> None, pre |-> creds]
               ELSE \E id \in HealthyIds(creds) :
                      \E pick \in IF ActiveKeys(creds[id]) = {} THEN {0}
                                  ELSE ActiveKeys(creds[id]) :
                        LET token == BearerOf(creds[id], pick)
                        IN last' = [op |-> "acquire", model |-> model,
                                    ok |-> token.ok, err |-> token.err,
                                    id |-> IF token.ok THEN id ELSE UnknownId,
                                    bearer |-> token.val, pre |-> creds]
  /\ UNCHANGED <<creds, lock, inflight, credential, wpc, retryVars, input>>

\* Mutant: a release of an unknown id stores a record for it.
ReleaseCredentialInserts(t, credential_id, result) ==
  /\ Idle(t)
  /\ lock = 0
  /\ IF credential_id \in DOMAIN creds
       THEN /\ creds[credential_id].usage_count < MaxCount
            /\ creds' = [creds EXCEPT
                           ![credential_id] = ReleaseRecord(@, result)]
       ELSE creds' = [id \in DOMAIN creds \cup {credential_id} |->
                        IF id = credential_id
                          THEN ReleaseRecord(DefaultCredentials, result)
                          ELSE creds[id]]
  /\ last' = [op |-> "release", id |-> credential_id, result |-> result,
              ok |-> TRUE, pre |-> creds]
  /\ UNCHANGED <<lock, inflight, credential, wpc, retryVars, input>>

\* release_credential.
ReleaseCredential(t, credential_id, result) ==
  /\ Idle(t)
  /\ lock = 0
  /\ IF credential_id \in DOMAIN creds
       THEN /\ creds[credential_id].usage_count < MaxCount
            /\ creds' = [creds EXCEPT
                           ![credential_id] = ReleaseRecord(@, result)]
       ELSE creds' = creds
  /\ last' = [op |-> "release", id |-> credential_id, result |-> result,
              ok |-> TRUE, pre |-> creds]
  /\ UNCHANGED <<lock, inflight, credential, wpc, retryVars, input>>

\* validate_credential.
ValidateCredential(t, credential_id) ==
  /\ Idle(t)
  /\ lock = 0
  /\ last' = [op |-> "validate", id |-> credential_id,
              valid |-> IF credential_id \in DOMAIN creds
                          THEN ValidateRecord(creds[credential_id]).valid
                          ELSE FALSE,
              message |-> IF credential_id \in DOMAIN creds
                            THEN ValidateRecord(creds[credential_id]).message
                            ELSE "not found",
              pre |-> creds]
  /\ UNCHANGED <<creds, lock, inflight, credential, wpc, retryVars, input>>

\* provider::refresh_token up to the await of the token exchange: the write
\* guard is taken, and kept while the exchange is awaited.
RefreshBegin(t, credential_id) ==
  /\ Idle(t)
  /\ lock = 0
  /\ IF credential_id \notin DOMAIN creds
       THEN /\ last' = [op |-> "refresh", id |-> credential_id, ok |-> FALSE,
                        err |-> "not found", sent |-> FALSE, pre |-> creds]
            /\ UNCHANGED <<lock, inflight, credential, wpc>>
     ELSE IF ~RefreshPrecheck(creds[credential_id]).ok
       THEN /\ last' = [op |-> "refresh", id |-> credential_id, ok |-> FALSE,
                        err |-> RefreshPrecheck(creds[credential_id]).err,
                        sent |-> FALSE, pre |-> creds]
            /\ UNCHANGED <<lock, inflight, credential, wpc>>
     ELSE /\ lock' = t
          /\ inflight' = [inflight EXCEPT ![t] = credential_id]
          /\ last' = last
  /\ creds' = creds
  /\ UNCHANGED <<recordVars, retryVars, input>>

\* Mutant: a failed exchange is recorded on the record.
RefreshEndRecordsFailure(t, reply) ==
  /\ inflight[t] # None
  /\ last = NoCall
  /\ LET id == inflight[t]
         result == refresh_workos_token(reply)
     IN /\ creds' = IF result.ok
                      THEN [creds EXCEPT ![id] = ApplyRefresh(@, result.val)]
                      ELSE [creds EXCEPT ![id].is_healthy = FALSE,
                                         ![id].last_error = result.err]
        /\ last' = [op |-> "refresh", id |-> id, ok |-> result.ok,
                    err |-> result.err, sent |-> TRUE, reply |-> reply,
                    pre |-> creds]
  /\ lock' = 0
  /\ inflight' = [inflight EXCEPT ![t] = None]
  /\ UNCHANGED <<recordVars, retryVars, input>>

\* provider::refresh_token from the answer of the token exchange on: the
\* record is updated on success, and the guard is dropped at the return.
RefreshEnd(t, reply) ==
  /\ inflight[t] # None
  /\ last = NoCall
  /\ LET id == inflight[t]
         result == refresh_workos_token(reply)
     IN /\ creds' = IF result.ok
                      THEN [creds EXCEPT ![id] = ApplyRefresh(@, result.val)]
                      ELSE creds
        /\ last' = [op |-> "refresh", id |-> id, ok |-> result.ok,
                    err |-> result.err, sent |-> TRUE, reply |-> reply,
                    pre |-> creds]
  /\ lock' = 0
  /\ inflight' = [inflight EXCEPT ![t] = None]
  /\ UNCHANGED <<recordVars, retryVars, input>>

\* The caller takes the result of the call. A handler starts only once the
\* result of the previous call is taken: the calls that read or write the
\* store are serialized by its lock, so every order of calls is still there.
Return ==
  /\ last # NoCall
  /\ last' = NoCall
  /\ UNCHANGED <<creds, lock, inflight, credential, wpc, retryVars, input>>

Next ==
  \/ \E t \in Tasks, call \in CreateCalls : CreateCredential(t, call[1], call[2])
  \/ \E t \in Tasks, m \in Models : AcquireCredential(t, m)
  \/ \E t \in Tasks, id \in CallIds, r \in Outcomes : ReleaseCredential(t, id, r)
  \/ \E t \in Tasks, id \in CallIds : ValidateCredential(t, id)
  \/ \E t \in Tasks, id \in CallIds : RefreshBegin(t, id)
  \/ \E t \in Tasks, r \in StoreReplies : RefreshEnd(t, r)
  \/ Return

Spec == Init /\ [][Next]_vars

\* ------------------------------------------- the refresh workflow on a record
\* token_refresh::refresh_token is public and works on any DroidCredentials
\* its caller holds, whatever its auth type.

OAuthRecords ==
  { [DefaultCredentials EXCEPT
       !.access_token = at, !.refresh_token = rt, !.organization_id = org,
       !.is_healthy = h, !.last_error = e, !.error_count = IF e = None THEN 0 ELSE 1,
       !.usage_count = IF e = None THEN 0 ELSE 1] :
      at \in {None, "at0"}, rt \in {None, "rt0"}, org \in {None, "org0"},
      h \in BOOLEAN, e \in {None, "x"} }

ApiKeyRecords ==
  { [DefaultCredentials EXCEPT
       !.auth_type = "api_key", !.refresh_token = rt, !.is_healthy = h,
       !.api_keys = <<NewApiKeyEntry(Key1, IV1)>>] :
      rt \in {None, "rt0"}, h \in BOOLEAN }

Records == OAuthRecords \cup ApiKeyRecords

\* The replies the token endpoint gives to the refreshes of the workflow.
RecordReplies ==
  { ReplyFail("transport"), ReplyFail("status"), ReplyFail("json") }
    \cup { ReplyOk(TokenResponse(at, rt, exp_at, exp_in, org, u[1], u[2])) :
             at \in {"at1", "at2"}, rt \in {None, "rt1"},
             exp_at \in {None, "t:2030", "tomorrow"}, exp_in \in {None, "3600"},
             org \in {None, "org1", ""},
             u \in {<<None, None>>, <<"u1", "e1">>, <<"", "">>} }

InitRecord ==
  /\ creds = << >>
  /\ lock = 0
  /\ inflight = [t \in Tasks |-> None]
  /\ last = NoCall
  /\ credential \in Records
  /\ wpc = "idle"
  /\ max_retries = 0
  /\ attempt = 0
  /\ last_error = None
  /\ slept = <<>>
  /\ tried = <<>>
  /\ input = NoInput

\* token_refresh::refresh_token up to the await of the exchange.
RecordRefreshBegin ==
  /\ wpc = "idle"
  /\ last = NoCall
  /\ IF RefreshPrecheck(credential).ok
       THEN wpc' = "exchange" /\ last' = last
       ELSE /\ wpc' = wpc
            /\ last' = [op |-> "refresh_record", ok |-> FALSE,
                        err |-> RefreshPrecheck(credential).err,
                        sent |-> FALSE, reply |-> ReplyFail(None),
                        pre |-> credential]
  /\ credential' = credential
  /\ UNCHANGED <<storeVars, retryVars, input>>

\* token_refresh::refresh_token from the answer of the exchange on.
RecordRefreshEnd(reply) ==
  /\ wpc = "exchange"
  /\ LET result == refresh_workos_token(reply)
     IN /\ credential' = IF result.ok THEN ApplyRefresh(credential, result.val)
                         ELSE credential
        /\ last' = [op |-> "refresh_record", ok |-> result.ok,
                    err |-> result.err, sent |-> TRUE, reply |-> reply,
                    pre |-> credential]
  /\ wpc' = "idle"
  /\ UNCHANGED <<storeVars, retryVars, input>>

NextRecord ==
  \/ RecordRefreshBegin
  \/ \E r \in RecordReplies : RecordRefreshEnd(r)
  \/ Return

SpecRecord == InitRecord /\ [][NextRecord]_vars

\* ------------------------------------------- handlers on any stored record
\* validate_credential, acquire_credential and refresh_token work on whatever
\* DroidCredentials the map holds: records of both auth types, with any
\* tokens, health flag and entry statuses.

DisabledEntry(key_str, iv) ==
  [NewApiKeyEntry(key_str, iv) EXCEPT !.status = "disabled"]

StoredApiKeyRecords ==
  { [DefaultCredentials EXCEPT
       !.auth_type = "api_key", !.access_token = at, !.is_healthy = h,
       !.api_keys = ks] :
      at \in {None, "at0"}, h \in BOOLEAN,
      ks \in { <<>>,
               <<NewApiKeyEntry(Key1, IV1)>>,
               <<DisabledEntry(Key1, IV1)>>,
               <<DisabledEntry(Key1, IV1), NewApiKeyEntry(Key2, IV2)>>,
               <<DisabledEntry(Key1, IV1), DisabledEntry(Key2, IV2)>> } }

InitStored ==
  /\ \/ creds = << >>
     \/ \E r \in OAuthRecords : creds = [id \in {IdPool[1]} |-> r]
     \/ \E r \in StoredApiKeyRecords : creds = [id \in {IdPool[1]} |-> r]
  /\ lock = 0
  /\ inflight = [t \in Tasks |-> None]
  /\ last = NoCall
  /\ credential = DefaultCredentials
  /\ wpc = "idle"
  /\ max_retries = 0
  /\ attempt = 0
  /\ last_error = None
  /\ slept = <<>>
  /\ tried = <<>>
  /\ input = NoInput

NextStored ==
  \/ \E t \in Tasks, id \in CallIds : ValidateCredential(t, id)
  \/ \E t \in Tasks, m \in Models : AcquireCredential(t, m)
  \/ \E t \in Tasks, id \in CallIds : RefreshBegin(t, id)
  \/ \E t \in Tasks, r \in StoreReplies : RefreshEnd(t, r)
  \/ Return

SpecStored == InitStored /\ [][NextStored]_vars

\* ------------------------------------------------ refresh_token_with_retry
\* The caller owns the record (&mut DroidCredentials), so the call runs alone
\* on it: loop head, attempt, sleep, loop head, ... until it returns.

\* The greatest max_retries the callers pass.
MaxRetries == 3

\* Mutant: the loop runs for attempt = max_retries too.
InRangeInclusive(k, n) == k <= n

\* for attempt in 0..max_retries: whether the body runs for attempt k.
InRange(k, n) == k < n

\* 1000 * 2_u64.pow(attempt), in ms.
delay(k) == 1000 * (2 ^ k)

\* The result of one attempt as the loop sees it. sent: the attempt got as far
\* as the token exchange; val: the access token of the TokenRefreshResult.
Attempt(ok, err, sent, val) == [ok |-> ok, err |-> err, sent |-> sent, val |-> val]

\* The replies the token endpoint gives to the attempts.
RetryReplies ==
  { ReplyFail("transport"), ReplyFail("status"), ReplyFail("json"),
    ReplyOk(TokenResponse("at1", "rt1", None, None, None, None, None)) }

InitRetry ==
  /\ creds = << >>
  /\ lock = 0
  /\ inflight = [t \in Tasks |-> None]
  /\ last = NoCall
  /\ credential \in Records
  /\ wpc = "idle"
  /\ max_retries = 0
  /\ attempt = 0
  /\ last_error = None
  /\ slept = <<>>
  /\ tried = <<>>
  /\ input = NoInput

\* The call: let mut last_error = None, and the loop starts at attempt 0.
RetryCall(n) ==
  /\ wpc = "idle"
  /\ last = NoCall
  /\ max_retries' = n
  /\ attempt' = 0
  /\ last_error' = None
  /\ slept' = <<>>
  /\ tried' = <<>>
  /\ wpc' = "loop"
  /\ UNCHANGED <<storeVars, last, credential, input>>

\* The loop body up to the first await: refresh_token(credential) either
\* fails before any request (the Err arm then runs up to its sleep) or
\* awaits the token exchange.
RetryAttempt ==
  /\ wpc = "loop"
  /\ InRange(attempt, max_retries)
  /\ LET pre == RefreshPrecheck(credential)
     IN IF pre.ok
          THEN /\ wpc' = "exchange"
               /\ UNCHANGED <<last_error, tried>>
          ELSE /\ wpc' = "sleep"
               /\ last_error' = pre.err
               /\ tried' = Append(tried, Attempt(FALSE, pre.err, FALSE, None))
  /\ UNCHANGED <<storeVars, last, credential, max_retries, attempt, slept, input>>

\* The answer of the token exchange: Ok(result) => return Ok(result), and the
\* Err arm up to its sleep.
RetryExchangeEnd(reply) ==
  /\ wpc = "exchange"
  /\ LET result == refresh_workos_token(reply)
     IN IF result.ok
          THEN /\ credential' = ApplyRefresh(credential, result.val)
               /\ tried' = Append(tried, Attempt(TRUE, None, TRUE,
                                                 result.val.access_token))
               /\ last' = [op |-> "retry", ok |-> TRUE, err |-> None,
                           val |-> result.val.access_token]
               /\ wpc' = "idle"
               /\ UNCHANGED last_error
          ELSE /\ credential' = credential
               /\ tried' = Append(tried, Attempt(FALSE, result.err, TRUE, None))
               /\ last_error' = result.err
               /\ last' = last
               /\ wpc' = "sleep"
  /\ UNCHANGED <<storeVars, max_retries, attempt, slept, input>>

\* tokio::time::sleep(delay).await in the Err arm, and the step of the loop.
RetrySleep ==
  /\ wpc = "sleep"
  /\ slept' = Append(slept, delay(attempt))
  /\ attempt' = attempt + 1
  /\ wpc' = "loop"
  /\ UNCHANGED <<storeVars, last, credential, max_retries, last_error, tried, input>>

\* After the loop: Err(last_error.unwrap()). Option::unwrap panics on None.
RetryExhausted ==
  /\ wpc = "loop"
  /\ ~InRange(attempt, max_retries)
  /\ IF last_error = None
       THEN wpc' = "panicked" /\ last' = last
       ELSE /\ wpc' = "idle"
            /\ last' = [op |-> "retry", ok |-> FALSE, err |-> last_error,
                        val |-> None]
  /\ UNCHANGED <<storeVars, credential, retryVars, input>>

NextRetry ==
  \/ \E n \in 0..MaxRetries : RetryCall(n)
  \/ RetryAttempt
  \/ \E r \in RetryReplies : RetryExchangeEnd(r)
  \/ RetrySleep
  \/ RetryExhausted
  \/ Return

SpecRetry == InitRetry /\ [][NextRetry]_vars

\* The runtime runs the task of the call, the exchange is answered or times
\* out (reqwest timeout of 60 s), and a sleep ends.
FairSpecRetry == SpecRetry /\ WF_vars(NextRetry)

\* ------------------------------------------------------- the pure functions
\* parse_error, is_token_expired, is_token_expiring_soon and the crypto unit
\* read no state of the program: a caller passes arguments and takes the
\* result. An Option is a sequence of length 0 or 1.

Nothing == <<>>
Some(v) == <<v>>

\* The statuses the callers pass: every u16 up to MaxStatus, and u16::MAX.
MaxStatus == 700
U16Max == 65535
Statuses == 0..MaxStatus \cup {U16Max}

\* Response bodies, as characters.
Bodies == { <<>>, <<"o", "o", "p", "s">>, <<"{", "}">> }

\* The fixed messages and the prefix of the server-error message.
MsgAuthentication == <<"t", "o", "k", "e", "n">>
MsgAuthorization == <<"d", "e", "n", "i", "e", "d">>
MsgRateLimit == <<"b", "u", "s", "y">>
MsgServerPrefix == <<"s", "e", "r", "v", "e", "r", ":", " ">>

ProviderError(error_type, message, status, retryable, cooldown_seconds) ==
  [error_type |-> error_type, message |-> message, status_code |-> Some(status),
   retryable |-> retryable, cooldown_seconds |-> cooldown_seconds]

\* Mutant: the server-error arm stops one status short.
parse_errorShortRange(status, body) ==
  IF status = 401
    THEN Some(ProviderError("authentication", MsgAuthentication, status, TRUE, Some(0)))
  ELSE IF status = 403
    THEN Some(ProviderError("authorization", MsgAuthorization, status, FALSE, Nothing))
  ELSE IF status = 429
    THEN Some(ProviderError("rate_limit", MsgRateLimit, status, TRUE, Some(60)))
  ELSE IF status \in 500..598
    THEN Some(ProviderError("server_error", MsgServerPrefix \o body, status, TRUE,
                            Some(10)))
  ELSE Nothing

\* parse_error: the arms of the match on the status, in order.
parse_error(status, body) ==
  IF status = 401
    THEN Some(ProviderError("authentication", MsgAuthentication, status, TRUE, Some(0)))
  ELSE IF status = 403
    THEN Some(ProviderError("authorization", MsgAuthorization, status, FALSE, Nothing))
  ELSE IF status = 429
    THEN Some(ProviderError("rate_limit", MsgRateLimit, status, TRUE, Some(60)))
  ELSE IF status \in 500..599
    THEN Some(ProviderError("server_error", MsgServerPrefix \o body, status, TRUE,
                            Some(10)))
  ELSE Nothing

\* Time is counted in minutes. A timestamp text either is RFC 3339 and names a
\* minute, or is some other text.
Rfc3339(m) == [text |-> "rfc3339", minute |-> m]
NotATime == [text |-> "tomorrow", minute |-> 0]

\* DateTime::parse_from_rfc3339(s).ok()
parse_from_rfc3339(s) == IF s.text = "rfc3339" THEN Some(s.minute) ELSE Nothing

\* Duration::minutes(5) and Duration::hours(1), in minutes.
ExpiredMargin == 5
ExpiringSoonMargin == 60

\* is_token_expired, with the Utc::now() it reads.
is_token_expired(expires_at, now) ==
  IF expires_at # Nothing /\ parse_from_rfc3339(expires_at[1]) # Nothing
    THEN parse_from_rfc3339(expires_at[1])[1] <= now + ExpiredMargin
    ELSE TRUE

\* Mutant: an expiry exactly one hour away counts as expiring soon.
is_token_expiring_soonInclusive(expires_at, now) ==
  IF expires_at # Nothing /\ parse_from_rfc3339(expires_at[1]) # Nothing
    THEN parse_from_rfc3339(expires_at[1])[1] <= now + ExpiringSoonMargin
    ELSE FALSE

\* is_token_expiring_soon, with the Utc::now() it reads.
is_token_expiring_soon(expires_at, now) ==
  IF expires_at # Nothing /\ parse_from_rfc3339(expires_at[1]) # Nothing
    THEN parse_from_rfc3339(expires_at[1])[1] < now + ExpiringSoonMargin
    ELSE FALSE

\* The latest minute a timestamp of the callers names, and the clock values.
MaxMinute == 130
Clock == {60, 61, 64}
ExpiryArgs ==
  {Nothing, Some(NotATime)} \cup {Some(Rfc3339(m)) : m \in 0..MaxMinute}

\* Plaintexts of 0, 1, 2, 15, 16, 17, 31 and 32 bytes (one with a colon, one
\* ending in bytes that look like padding), and the secrets.
Plaintexts ==
  { <<>>, <<107>>, Key1, <<58, 58>>, <<65, 1>>,
    [i \in 1..15 |-> 65], [i \in 1..16 |-> 66], [i \in 1..16 |-> 16],
    [i \in 1..17 |-> 67], [i \in 1..31 |-> 68], [i \in 1..32 |-> 69] }
Secrets == { <<>>, ENCRYPTION_KEY, <<115>> }

InitPure ==
  /\ creds = << >>
  /\ lock = 0
  /\ inflight = [t \in Tasks |-> None]
  /\ last = NoCall
  /\ credential = DefaultCredentials
  /\ wpc = "idle"
  /\ max_retries = 0
  /\ attempt = 0
  /\ last_error = None
  /\ slept = <<>>
  /\ tried = <<>>
  /\ \/ \E st \in Statuses, b \in Bodies :
          input = [fn |-> "parse_error", status |-> st, body |-> b]
     \/ \E e \in ExpiryArgs, n \in Clock :
          input = [fn |-> "expiry", expires_at |-> e, now |-> n]
     \/ \E pt \in Plaintexts, k \in Secrets :
          input = [fn |-> "crypto", plaintext |-> pt, encryption_key |-> k]

ParseError ==
  /\ input.fn = "parse_error"
  /\ last = NoCall
  /\ last' = [op |-> "parse_error", status |-> input.status, body |-> input.body,
              result |-> parse_error(input.status, input.body)]
  /\ UNCHANGED <<storeVars, recordVars, retryVars, input>>

IsTokenExpired ==
  /\ input.fn = "expiry"
  /\ last = NoCall
  /\ last' = [op |-> "is_token_expired", expires_at |-> input.expires_at,
              now |-> input.now,
              result |-> is_token_expired(input.expires_at, input.now)]
  /\ UNCHANGED <<storeVars, recordVars, retryVars, input>>

IsTokenExpiringSoon ==
  /\ input.fn = "expiry"
  /\ last = NoCall
  /\ last' = [op |-> "is_token_expiring_soon", expires_at |-> input.expires_at,
              now |-> input.now,
              result |-> is_token_expiring_soon(input.expires_at, input.now)]
  /\ UNCHANGED <<storeVars, recordVars, retryVars, input>>

\* encrypt_sensitive_data with the IV rand::thread_rng().gen() draws.
Encrypt(iv) ==
  /\ input.fn = "crypto"
  /\ last = NoCall
  /\ last' = [op |-> "encrypt", iv |-> iv,
              val |-> encrypt_sensitive_data(input.plaintext,
                                             input.encryption_key, iv)]
  /\ UNCHANGED <<storeVars, recordVars, retryVars, input>>

\* decrypt_sensitive_data on the token encrypt has just returned, under the
\* same secret.
Decrypt ==
  /\ input.fn = "crypto"
  /\ last.op = "encrypt"
  /\ last' = [op |-> "decrypt", iv |-> last.iv, token |-> last.val,
              result |-> decrypt_sensitive_data(last.val, input.encryption_key)]
  /\ UNCHANGED <<storeVars, recordVars, retryVars, input>>

NextPure ==
  \/ ParseError
  \/ IsTokenExpired
  \/ IsTokenExpiringSoon
  \/ \E iv \in IVs : Encrypt(iv)
  \/ Decrypt
  \/ Return

SpecPure == InitPure /\ [][NextPure]_vars

\* ------------------------------------------------------------------ claims

\* C1: during the store's refresh the write lock is not held while the token
\* exchange is in flight, so the handlers of other credentials can run.
C1_LockFreeDuringExchange ==
  \A t \in Tasks : inflight[t] # None => lock = 0

\* C2: acquire for a supported model returns only a record that is healthy,
\* and fails with "no healthy credential" when no record is healthy.
C2_AcquireOnlyHealthy ==
  (last.op = "acquire" /\ supports_model(last.model)) =>
    /\ last.ok => (last.id \in DOMAIN creds /\ creds[last.id].is_healthy)
    /\ (\A id \in DOMAIN creds : ~creds[id].is_healthy) =>
         (~last.ok /\ last.err = "no healthy credential")

\* Acquire returned a record while another record of the store is unhealthy.
C2_Witness ==
  /\ last.op = "acquire"
  /\ last.ok
  /\ \E id \in DOMAIN creds : id # last.id /\ ~creds[id].is_healthy

\* C3: release of a known id with an outcome without error heals the record
\* (is_healthy = true, last_error = none), adds exactly 1 to usage_count and
\* leaves error_count as it was.
C3_ReleaseSuccessHeals ==
  (last.op = "release" /\ last.id \in DOMAIN last.pre /\ ~last.result.has_error) =>
    /\ creds[last.id].is_healthy
    /\ creds[last.id].last_error = None
    /\ creds[last.id].usage_count = last.pre[last.id].usage_count + 1
    /\ creds[last.id].error_count = last.pre[last.id].error_count

\* A successful release of a record that was unhealthy with an error recorded.
C3_Witness ==
  /\ last.op = "release"
  /\ last.id \in DOMAIN last.pre
  /\ ~last.result.has_error
  /\ ~last.pre[last.id].is_healthy
  /\ last.pre[last.id].last_error # None
  /\ last.pre[last.id].error_count > 0

\* C4: release of a known id with an outcome carrying an error adds exactly 1
\* to usage_count and to error_count, sets last_error to the message of the
\* error (none when it has no string message), sets is_healthy to false when
\* mark_unhealthy is true and keeps is_healthy otherwise.
C4_ReleaseErrorCounts ==
  (last.op = "release" /\ last.id \in DOMAIN last.pre /\ last.result.has_error) =>
    /\ creds[last.id].usage_count = last.pre[last.id].usage_count + 1
    /\ creds[last.id].error_count = last.pre[last.id].error_count + 1
    /\ creds[last.id].last_error =
         (IF last.result.message \in {Absent, NonString} THEN None
          ELSE last.result.message)
    /\ creds[last.id].is_healthy =
         (IF last.result.mark_unhealthy = "true" THEN FALSE
          ELSE last.pre[last.id].is_healthy)

\* An error release that does not ask for it, on a healthy record, after
\* which the record is still healthy and holds the message.
C4_Witness ==
  /\ last.op = "release"
  /\ last.id \in DOMAIN last.pre
  /\ last.result.has_error
  /\ last.result.mark_unhealthy # "true"
  /\ last.result.message = "x"
  /\ last.pre[last.id].is_healthy
  /\ last.pre[last.id].last_error = None
  /\ creds[last.id].is_healthy

AllStrings(items) ==
  items # <<>> /\ \A i \in 1..Len(items) : items[i].kind = "string"

\* C5: create with auth type "api_key" and a non-empty list of plaintext keys
\* succeeds and stores one active entry per key, with the hash and an
\* encryption of that key.
C5_ApiKeyCreateSucceeds ==
  (/\ last.op = "create"
   /\ last.auth_type = "api_key"
   /\ last.config.auth_type = Absent
   /\ AllStrings(last.config.api_keys.items)) =>
    /\ last.ok
    /\ last.id \in DOMAIN creds
    /\ last.id \notin DOMAIN last.pre
    /\ Len(creds[last.id].api_keys) = Len(last.config.api_keys.items)
    /\ \A i \in 1..Len(last.config.api_keys.items) :
         /\ creds[last.id].api_keys[i].status = "active"
         /\ creds[last.id].api_keys[i].hash =
              hash_api_key(last.config.api_keys.items[i].str)
         /\ \E iv \in IVs :
              creds[last.id].api_keys[i].encrypted_key =
                encrypt_sensitive_data(last.config.api_keys.items[i].str,
                                       ENCRYPTION_KEY, iv)

\* C6: create fails and leaves the store as it was when the auth type is
\* unknown, when an OAuth config has neither token, or when an ApiKey config
\* yields no key.
C6_RejectedCreateKeepsStore ==
  (/\ last.op = "create"
   /\ \/ last.auth_type \notin {"oauth", "api_key"}
      \/ /\ last.auth_type = "oauth"
         /\ last.config.access_token = Absent
         /\ last.config.refresh_token = Absent
      \/ /\ last.auth_type = "api_key"
         /\ \A i \in 1..Len(last.config.api_keys.items) :
              last.config.api_keys.items[i].kind # "string") =>
    /\ ~last.ok
    /\ last.id = UnknownId
    /\ creds = last.pre

\* A create of an OAuth record without tokens was rejected by a store that
\* holds a record.
C6_Witness ==
  /\ last.op = "create"
  /\ last.auth_type = "oauth"
  /\ last.config = NoFields
  /\ ~last.ok
  /\ last.err = "oauth needs a token"
  /\ DOMAIN creds # {}

\* C7: the record of a successful create is healthy, whatever the config holds.
C7_CreatedHealthy ==
  (last.op = "create" /\ last.ok) => creds[last.id].is_healthy

\* C8: a successful refresh keeps the stored refresh token when the response
\* holds none and replaces it when the response holds one, so the record
\* holds a refresh token after every successful refresh.
C8_RefreshTokenKept ==
  (last.op = "refresh_record" /\ last.ok) =>
    /\ credential.refresh_token =
         (IF last.reply.body.refresh_token = None THEN last.pre.refresh_token
          ELSE last.reply.body.refresh_token)
    /\ credential.refresh_token # None

\* A second successful refresh, whose response holds no refresh token, of a
\* record whose refresh token an earlier response had replaced.
C8_Witness ==
  /\ last.op = "refresh_record"
  /\ last.ok
  /\ last.reply.body.refresh_token = None
  /\ last.pre.last_refresh # None
  /\ last.pre.refresh_token = "rt1"
  /\ credential.refresh_token = "rt1"

\* C9: a successful refresh of a record of the store sets access_token to the
\* token of the response, is_healthy to true and last_error to none, so that
\* acquire can select the record.
C9_RefreshHeals ==
  (last.op = "refresh" /\ last.ok) =>
    /\ creds[last.id].access_token = last.reply.body.access_token
    /\ creds[last.id].is_healthy
    /\ creds[last.id].last_error = None
    /\ creds[last.id].auth_type = "oauth"
    /\ creds[last.id].access_token # None

\* A successful refresh of a record an earlier release had marked unhealthy.
C9_Witness ==
  /\ last.op = "refresh"
  /\ last.ok
  /\ ~last.pre[last.id].is_healthy
  /\ last.pre[last.id].error_count > 0
  /\ last.pre[last.id].last_error # None

\* C10: refresh of a record that is not OAuth, or that holds no refresh
\* token, fails without a token exchange and leaves the record as it was.
C10_RefreshFailsEarly ==
  /\ (last.op = "refresh_record"
        /\ (last.pre.auth_type # "oauth" \/ last.pre.refresh_token = None)) =>
       (~last.ok /\ ~last.sent /\ credential = last.pre)
  /\ wpc = "exchange" =>
       (credential.auth_type = "oauth" /\ credential.refresh_token # None)

\* The refresh of an ApiKey record that holds a refresh token has failed.
C10_Witness ==
  /\ last.op = "refresh_record"
  /\ last.pre.auth_type = "api_key"
  /\ last.pre.refresh_token # None
  /\ ~last.ok

\* A call of refresh_token_with_retry is between its entry and its return.
InRetry == wpc \in {"loop", "exchange", "sleep"}

\* Every attempt but the last one of a call has failed, and the call makes no
\* more attempts than max_retries.
RetryAttemptsBounded ==
  /\ Len(tried) <= max_retries
  /\ \A i \in 1..(Len(tried) - 1) : ~tried[i].ok
  /\ (tried # <<>> /\ tried[Len(tried)].ok) => ~InRetry
  /\ last.op = "retry" =>
       /\ tried # <<>>
       /\ last.ok = tried[Len(tried)].ok
       /\ last.err = tried[Len(tried)].err
       /\ last.val = tried[Len(tried)].val

\* C11: a call of refresh_token_with_retry ends, after at most max_retries
\* attempts; it makes no attempt after the first success and returns that
\* success; when it returns a failure, that is the failure of the most
\* recent attempt.
C11_RetryTerminates ==
  /\ []RetryAttemptsBounded
  /\ InRetry ~> ~InRetry

\* A call with max_retries = 3 has returned the success of its second attempt.
C11_Witness ==
  /\ last.op = "retry"
  /\ last.ok
  /\ max_retries = 3
  /\ Len(tried) = 2
  /\ ~tried[1].ok
  /\ tried[1].sent

\* C12: no operation panics: every call ends by returning a result or an
\* error, refresh_token_with_retry with max_retries = 0 included.
C12_NoPanic == wpc # "panicked"

\* C13: validate reports valid = true exactly when the record exists, is
\* healthy and holds what its auth type needs: an access token or a refresh
\* token for OAuth, at least one entry with status "active" for ApiKey. For
\* an unknown id it reports valid = false.
C13_ValidateExact ==
  last.op = "validate" =>
    /\ last.valid =
         (/\ last.id \in DOMAIN creds
          /\ creds[last.id].is_healthy
          /\ IF creds[last.id].auth_type = "oauth"
               THEN \/ creds[last.id].access_token # None
                    \/ creds[last.id].refresh_token # None
               ELSE \E i \in 1..Len(creds[last.id].api_keys) :
                      creds[last.id].api_keys[i].status = "active")
    /\ last.id \notin DOMAIN creds => (~last.valid /\ last.message = "not found")
    /\ creds = last.pre

\* validate of an unhealthy ApiKey record that holds a disabled and an active
\* entry has answered.
C13_Witness ==
  /\ last.op = "validate"
  /\ last.id \in DOMAIN creds
  /\ creds[last.id].auth_type = "api_key"
  /\ ~creds[last.id].is_healthy
  /\ Len(creds[last.id].api_keys) = 2
  /\ creds[last.id].api_keys[2].status = "active"
  /\ ~last.valid

\* body occurs in message as a run of consecutive characters.
Contains(message, body) ==
  \E i \in 0..(Len(message) - Len(body)) :
    SubSeq(message, i + 1, i + Len(body)) = body

\* C14: parse_error follows a fixed table: 401 is an authentication error,
\* retryable, cooldown 0; 403 an authorization error, not retryable, without
\* cooldown; 429 a rate-limit error, retryable, cooldown 60; 500..599 a
\* server error, retryable, cooldown 10, whose message contains the body;
\* every other status gives no classification.
C14_ParseErrorTable ==
  last.op = "parse_error" =>
    LET r == last.result
    IN IF last.status = 401
         THEN /\ Len(r) = 1
              /\ r[1].error_type = "authentication"
              /\ r[1].retryable
              /\ r[1].cooldown_seconds = <<0>>
       ELSE IF last.status = 403
         THEN /\ Len(r) = 1
              /\ r[1].error_type = "authorization"
              /\ ~r[1].retryable
              /\ r[1].cooldown_seconds = <<>>
       ELSE IF last.status = 429
         THEN /\ Len(r) = 1
              /\ r[1].error_type = "rate_limit"
              /\ r[1].retryable
              /\ r[1].cooldown_seconds = <<60>>
       ELSE IF last.status >= 500 /\ last.status <= 599
         THEN /\ Len(r) = 1
              /\ r[1].error_type = "server_error"
              /\ r[1].retryable
              /\ r[1].cooldown_seconds = <<10>>
              /\ Contains(r[1].message, last.body)
       ELSE r = <<>>

\* parse_error has classified status 599 with a body that is not empty.
C14_Witness ==
  /\ last.op = "parse_error"
  /\ last.status = 599
  /\ last.body = <<"o", "o", "p", "s">>
  /\ Len(last.result) = 1

\* An expiry is known when a timestamp is given and it parses.
Known(expires_at) == expires_at # <<>> /\ expires_at[1].text = "rfc3339"

\* C15: is_token_expired is true exactly when no expiry is known or the
\* expiry is at most 5 minutes after now; is_token_expiring_soon is true
\* exactly when an expiry is known and it is less than 1 hour after now. So
\* for a known expiry expired implies expiring soon, and for an unknown one
\* expired is true and expiring soon is false.
C15_ExpiryPredicates ==
  /\ last.op = "is_token_expired" =>
       last.result = (\/ ~Known(last.expires_at)
                      \/ last.expires_at[1].minute <= last.now + 5)
  /\ last.op = "is_token_expiring_soon" =>
       last.result = (/\ Known(last.expires_at)
                      /\ last.expires_at[1].minute < last.now + 60)
  /\ input.fn = "expiry" =>
       IF Known(input.expires_at)
         THEN is_token_expired(input.expires_at, input.now)
                => is_token_expiring_soon(input.expires_at, input.now)
         ELSE /\ is_token_expired(input.expires_at, input.now)
              /\ ~is_token_expiring_soon(input.expires_at, input.now)

\* is_token_expiring_soon has answered false for an expiry exactly one hour
\* after now.
C15_Witness ==
  /\ last.op = "is_token_expiring_soon"
  /\ Known(last.expires_at)
  /\ last.expires_at[1].minute = last.now + 60
  /\ ~last.result

\* C16: decrypting, under the same secret, the token that encrypt returned
\* for a plaintext that is not empty gives the plaintext back, whichever IV
\* was drawn; the token is iv_hex:ciphertext_hex, two fields of hex digits,
\* the first of one block.
C16_RoundTrip ==
  /\ (last.op = "encrypt" /\ input.plaintext # <<>>) =>
       LET parts == SplitColon(last.val)
       IN /\ Len(parts) = 2
          /\ \A i \in 1..2 :
               /\ Len(parts[i]) % 2 = 0
               /\ \A j \in 1..Len(parts[i]) :
                    parts[i][j] \in {"0", "1", "2", "3", "4", "5", "6", "7", "8",
                                     "9", "a", "b", "c", "d", "e", "f"}
          /\ Len(parts[1]) = 32
          /\ Len(parts[2]) > 0
          /\ Len(parts[2]) % 32 = 0
  /\ (last.op = "decrypt" /\ input.plaintext # <<>>) =>
       /\ last.result.ok
       /\ last.result.val = input.plaintext

\* The token of a plaintext of exactly one block, encrypted under the empty
\* secret, has been decrypted.
C16_Witness ==
  /\ last.op = "decrypt"
  /\ Len(input.plaintext) = 16
  /\ input.encryption_key = <<>>
  /\ last.result.ok

\* C17: a successful refresh stores the expiry chosen by precedence: the
\* expires_at of the response when it is present and parses; otherwise now +
\* expires_in when expires_in is present; otherwise now + 8 hours. So a
\* successful refresh always stores a known expiry.
C17_ExpiryPrecedence ==
  (last.op = "refresh_record" /\ last.ok) =>
    /\ credential.expires_at =
         (IF last.reply.body.expires_at = "t:2030" THEN "t:2030"
          ELSE IF last.reply.body.expires_in # None THEN "t:now+expires_in"
          ELSE "t:now+8h")
    /\ credential.expires_at # None

\* C18: a successful refresh overwrites organization_id, user_id and
\* owner_email only with non-empty values of the response: a field the
\* response omits or holds as an empty string keeps its stored value.
C18_IdentityKept ==
  (last.op = "refresh_record" /\ last.ok) =>
    /\ credential.organization_id =
         (IF last.reply.body.organization_id \in {None, ""}
            THEN last.pre.organization_id
            ELSE last.reply.body.organization_id)
    /\ credential.user_id =
         (IF last.reply.body.user_id \in {None, ""}
            THEN last.pre.user_id
            ELSE last.reply.body.user_id)
    /\ credential.owner_email =
         (IF last.reply.body.email \in {None, ""}
            THEN last.pre.owner_email
            ELSE last.reply.body.email)

\* C19: a call retries only failures of the token exchange: an attempt that
\* fails before any request is sent (the record is not OAuth, or holds no
\* refresh token) is the only attempt of the call, and the call does not sleep.
C19_NoRetryWithoutExchange ==
  \A i \in 1..Len(tried) :
    ~tried[i].sent => (Len(tried) = 1 /\ slept = <<>>)

\* C20: a call sleeps only between attempts: the sleep after failed attempt
\* k lasts 1000 * 2^k ms and is followed by attempt k + 1, so a call that
\* returns the failure of its n-th attempt has slept n - 1 times.
C20_SleepsBetweenAttempts ==
  /\ \A k \in 1..Len(slept) : slept[k] = 1000 * (2 ^ (k - 1))
  /\ (last.op = "retry" /\ ~last.ok) => Len(slept) = Len(tried) - 1
  /\ (wpc = "loop" /\ Len(slept) = Len(tried) /\ tried # <<>>) =>
       attempt < max_retries

\* C21: release of an id the store does not hold returns success and leaves
\* the store as it was: no record changes and none is created.
C21_ReleaseUnknownIsNoOp ==
  (last.op = "release" /\ last.id \notin DOMAIN last.pre) =>
    /\ last.ok
    /\ creds = last.pre
    /\ last.id \notin DOMAIN creds

\* A release of an unknown id, with an error that asks to mark the record
\* unhealthy, has returned while the store holds a healthy record.
C21_Witness ==
  /\ last.op = "release"
  /\ last.id \notin DOMAIN creds
  /\ last.result.has_error
  /\ last.result.mark_unhealthy = "true"
  /\ \E id \in DOMAIN creds : creds[id].is_healthy /\ creds[id].usage_count = 0

\* The step is the return of a release of id whose outcome carries an error
\* with mark_unhealthy = true.
MarkingRelease(id) ==
  /\ last = NoCall
  /\ last'.op = "release"
  /\ last'.id = id
  /\ last'.result.has_error
  /\ last'.result.mark_unhealthy = "true"

\* C22: the is_healthy of a record goes from true to false only in a step
\* that is a release of that record whose outcome carries an error with
\* mark_unhealthy = true; no create, acquire, validate, refresh or release of
\* another id does it.
C22_UnhealthyOnlyByMarkedRelease ==
  [][\A id \in DOMAIN creds :
       (creds[id].is_healthy /\ id \in DOMAIN creds' /\ ~creds'[id].is_healthy)
         => MarkingRelease(id)]_vars

\* A release with mark_unhealthy = true has made unhealthy a record that a
\* refresh had updated, while another record of the store is still healthy.
C22_Witness ==
  /\ last.op = "release"
  /\ last.id \in DOMAIN last.pre
  /\ last.pre[last.id].is_healthy
  /\ last.pre[last.id].last_refresh # None
  /\ ~creds[last.id].is_healthy
  /\ \E id \in DOMAIN creds : id # last.id /\ creds[id].is_healthy

\* The record holds what acquire needs to build the bearer header.
Usable(r) ==
  IF r.auth_type = "oauth" THEN r.access_token # None
  ELSE \E i \in 1..Len(r.api_keys) : r.api_keys[i].status = "active"

\* C23: acquire builds the bearer token only from usable material of the
\* record it selected: the access token of an OAuth record, or the plaintext
\* of an entry with status "active" of an ApiKey record; it fails when the
\* healthy records hold no such material (a refresh token alone, or entries
\* of other statuses only).
C23_BearerFromUsableMaterial ==
  last.op = "acquire" =>
    /\ last.ok =>
         LET r == creds[last.id]
         IN /\ Usable(r)
            /\ IF r.auth_type = "oauth"
                 THEN last.bearer = r.access_token
                 ELSE \E i \in 1..Len(r.api_keys) :
                        /\ r.api_keys[i].status = "active"
                        /\ \E iv \in IVs :
                             r.api_keys[i].encrypted_key =
                               encrypt_sensitive_data(last.bearer, ENCRYPTION_KEY, iv)
    /\ (\A id \in DOMAIN creds : creds[id].is_healthy => ~Usable(creds[id])) =>
         ~last.ok

\* acquire has returned the key of the active second entry of an ApiKey
\* record whose first entry is disabled and which holds an access token too.
C23_Witness ==
  /\ last.op = "acquire"
  /\ last.ok
  /\ creds[last.id].auth_type = "api_key"
  /\ creds[last.id].access_token # None
  /\ Len(creds[last.id].api_keys) = 2
  /\ creds[last.id].api_keys[1].status # "active"
  /\ last.bearer = Key2

\* C25: acquire and validate do not modify the store, whether they succeed
\* or fail: every record, with its counters, health flag, last error and the
\* fields of its entries, is as before the call.
C25_AcquireValidateReadOnly ==
  last.op \in {"acquire", "validate"} => creds = last.pre

\* acquire has failed on a healthy ApiKey record that holds disabled entries
\* only.
C25_Witness ==
  /\ last.op = "acquire"
  /\ ~last.ok
  /\ last.err = "no api key"
  /\ \E id \in DOMAIN creds :
       /\ creds[id].is_healthy
       /\ Len(creds[id].api_keys) = 2

\* C26: a refresh that fails (unknown id, record that is not OAuth, missing
\* refresh token, transport failure, non-success status, unreadable body)
\* leaves the store as it was: the failure is not recorded on the record.
C26_FailedRefreshKeepsStore ==
  (last.op = "refresh" /\ ~last.ok) => creds = last.pre

\* The refresh of an unhealthy record with an error recorded has failed on a
\* non-success status of the token endpoint.
C26_Witness ==
  /\ last.op = "refresh"
  /\ ~last.ok
  /\ last.sent
  /\ last.err = "status"
  /\ ~creds[last.id].is_healthy
  /\ creds[last.id].last_error = "x"

\* The step is the return of a release of id, and the step in which a
\* successful refresh of id is applied.
ReleaseStep(id) == last = NoCall /\ last'.op = "release" /\ last'.id = id
ApplyStep(id) == last = NoCall /\ last'.op = "refresh" /\ last'.id = id /\ last'.ok

\* C24: release and the apply of a refresh on one record are atomic with
\* respect to each other, so no update is lost. In every step usage_count
\* grows by 1 when the step is a release of the record and by 0 otherwise,
\* error_count grows by 1 when that release carries an error and by 0
\* otherwise, and the tokens are those of the response when the step applies
\* a refresh and are unchanged otherwise; is_healthy and last_error change in
\* those two kinds of step only; and no step but its own end writes a record
\* whose refresh is in flight.
C24_NoLostUpdate ==
  [][\A id \in DOMAIN creds :
       /\ id \in DOMAIN creds'
       /\ creds'[id].usage_count =
            creds[id].usage_count + (IF ReleaseStep(id) THEN 1 ELSE 0)
       /\ creds'[id].error_count =
            creds[id].error_count
              + (IF ReleaseStep(id) /\ last'.result.has_error THEN 1 ELSE 0)
       /\ IF ApplyStep(id)
            THEN /\ creds'[id].access_token = last'.reply.body.access_token
                 /\ creds'[id].refresh_token =
                      (IF last'.reply.body.refresh_token = None
                         THEN creds[id].refresh_token
                         ELSE last'.reply.body.refresh_token)
                 /\ creds'[id].last_refresh # None
            ELSE /\ creds'[id].access_token = creds[id].access_token
                 /\ creds'[id].refresh_token = creds[id].refresh_token
                 /\ creds'[id].expires_at = creds[id].expires_at
                 /\ creds'[id].last_refresh = creds[id].last_refresh
       /\ (\/ creds'[id].is_healthy # creds[id].is_healthy
           \/ creds'[id].last_error # creds[id].last_error)
            => (ReleaseStep(id) \/ ApplyStep(id))
       /\ (\E t \in Tasks : inflight[t] = id) =>
            (creds'[id] = creds[id] \/ ApplyStep(id))]_vars

\* A second refresh has been applied to a record that releases, one of them
\* with an error, had updated after the first refresh, and the counters of
\* those releases are still there.
C24_Witness ==
  /\ last.op = "refresh"
  /\ last.ok
  /\ last.pre[last.id].last_refresh # None
  /\ last.pre[last.id].last_error # None
  /\ creds[last.id].usage_count >= 2
  /\ creds[last.id].error_count = 1
  /\ creds[last.id].last_error = None

====
